---- MODULE Spec2Model ----
(***************************************************************************)
(* Model of DNSHostProvider (dnshostprovider.go): the host list, the       *)
(* round-robin cursor, the "last connected" anchor, lazy DNS resolution    *)
(* and the mutex that guards them.                                         *)
(*                                                                         *)
(* Strings are sequences of one-character strings, so that SplitHostPort   *)
(* and JoinHostPort are computed the way the Go standard library computes  *)
(* them.                                                                   *)
(***************************************************************************)
EXTENDS Integers, Sequences, FiniteSets, TLC

(* ---------------------------- bounds ---------------------------------- *)

\* longest list of servers handed to Init
MaxServers == 3

\* most Next calls issued after one successful Init
MaxNexts == 7

\* threads calling the provider concurrently
NumThreads == 2

\* most Next calls issued concurrently after one successful Init
MaxConcNexts == 4

(* ---------------------------- strings --------------------------------- *)

Colon == ":"
LBracket == "["
RBracket == "]"
Percent == "%"

\* server strings handed to Init: "a:1" and "[b]:2" are well formed,
\* "a" has no port and "a:b:1" has too many colons
GoodStrings ==
    { <<"a", ":", "1">>,
      <<"[", "b", "]", ":", "2">> }

BadStrings ==
    { <<"a">>,
      <<"a", ":", "b", ":", "1">> }

ServerStrings == GoodStrings \cup BadStrings

\* the literal IPs the resolver can answer with: "9" and "::8"
IPs == { <<"9">>, <<":", ":", "8">> }

\* index of the first c in s, 0 when there is none (bytealg.IndexByteString)
RECURSIVE IndexFrom(_, _, _)
IndexFrom(s, c, i) ==
    IF i > Len(s) THEN 0
    ELSE IF s[i] = c THEN i
    ELSE IndexFrom(s, c, i + 1)

IndexByte(s, c) == IndexFrom(s, c, 1)

\* index of the last c in s, 0 when there is none (net.last)
RECURSIVE LastFrom(_, _, _)
LastFrom(s, c, i) ==
    IF i < 1 THEN 0
    ELSE IF s[i] = c THEN i
    ELSE LastFrom(s, c, i - 1)

LastIndex(s, c) == LastFrom(s, c, Len(s))

SplitErr(e) == [ok |-> FALSE, host |-> <<>>, port |-> <<>>, err |-> e]

\* net.SplitHostPort, indices shifted to start at 1
SplitHostPort(hostport) ==
    LET i == LastIndex(hostport, Colon) IN
    IF i = 0 THEN SplitErr("missing port in address")
    ELSE
      LET bracket == hostport[1] = LBracket
          end == IndexByte(hostport, RBracket)
          host == IF bracket THEN SubSeq(hostport, 2, end - 1)
                             ELSE SubSeq(hostport, 1, i - 1)
          rest1 == IF bracket THEN SubSeq(hostport, 2, Len(hostport))
                              ELSE hostport
          rest2 == IF bracket THEN SubSeq(hostport, end + 1, Len(hostport))
                              ELSE hostport
          port == SubSeq(hostport, i + 1, Len(hostport))
      IN
      IF bracket /\ end = 0 THEN SplitErr("missing ']' in address")
      ELSE IF bracket /\ end = Len(hostport) THEN SplitErr("missing port in address")
      ELSE IF bracket /\ end # i - 1 /\ hostport[end + 1] = Colon
           THEN SplitErr("too many colons in address")
      ELSE IF bracket /\ end # i - 1 THEN SplitErr("missing port in address")
      ELSE IF ~bracket /\ IndexByte(host, Colon) # 0
           THEN SplitErr("too many colons in address")
      ELSE IF IndexByte(rest1, LBracket) # 0 THEN SplitErr("unexpected '[' in address")
      ELSE IF IndexByte(rest2, RBracket) # 0 THEN SplitErr("unexpected ']' in address")
      ELSE [ok |-> TRUE, host |-> host, port |-> port, err |-> ""]

\* net.JoinHostPort: a host holding a colon or a percent sign is bracketed
JoinHostPort(host, port) ==
    IF IndexByte(host, Colon) # 0 \/ IndexByte(host, Percent) # 0
    THEN <<LBracket>> \o host \o <<RBracket, Colon>> \o port
    ELSE host \o <<Colon>> \o port

(* ---------------------------- values ---------------------------------- *)

\* inetAddress
inetAddress(h, p, r) == [host |-> h, port |-> p, resolved |-> r]

\* inetAddress.addr
addr(ia) == JoinHostPort(ia.host, ia.port)

\* the permutations rand.Shuffle can leave a slice in
Perms(n) == { p \in [1..n -> 1..n] : \A i, j \in 1..n : p[i] = p[j] => i = j }

Shuffle(s) == { [i \in 1..Len(s) |-> s[p[i]]] : p \in Perms(Len(s)) }

\* what lookupHost can answer: an error, or a list of IPs (possibly empty)
Outcomes ==
    { [err |-> TRUE, ips |-> <<>>],
      [err |-> FALSE, ips |-> <<>>],
      [err |-> FALSE, ips |-> << <<"9">> >>],
      [err |-> FALSE, ips |-> << <<"9">>, <<":", ":", "8">> >>] }

NoOutcome == [err |-> FALSE, ips |-> <<>>]

NoLookup == [called |-> FALSE, host |-> <<>>, outcome |-> NoOutcome]

NoRet == [server |-> <<>>, retryStart |-> FALSE, n |-> -1, err |-> ""]

(* ---------------------------- state ----------------------------------- *)

VARIABLES
    servers,    \* hp.servers: sequence of inetAddress (index i of the code is i+1 here)
    curr,       \* hp.curr
    last,       \* hp.last
    lastOp,     \* the operation that ran last
    ret,        \* what it returned
    lookup,     \* the lookupHost call it made, if any
    arg,        \* the list a successful Init was called with
    argGood,    \* the last Init was called with a non-empty list of well-formed entries
    pre,        \* curr, last and len(servers) before the last operation
    nexts,      \* Next calls since the last successful Init
    connected,  \* Connected was called since the last successful Init
    anchor,     \* hp.curr at the most recent Connected since then, -1 if none
    sinceConn,  \* Next calls since the most recent Connected or successful Init
    first,      \* the first successful lookup since the last successful Init:
                \* its index and the address Next returned then (idx = -1: none yet)
    hit,        \* the last Next landed on first.idx after that lookup
    falseRun,   \* Next calls in a row that returned retryStart = false, with no
                \* Connected and no successful Init among them
    mu,         \* hp.mu: the thread holding it, or NoOwner
    pc,         \* per thread, where it stands in the method it is running
    loc,        \* per thread, the locals of that method
    returned,   \* indices returned by the Next calls completed since the last
                \* successful Init, in the order of completion
    overlap,    \* some Next call since then started while another was under way
    got,        \* per thread, the index its last Next returned, until its
                \* Connected returns (-1: none)
    lastBy      \* the thread whose Next returned last (NoOwner: none)

\* the history of the one-caller specification
seqHist == <<lastOp, ret, lookup, arg, argGood, pre, nexts, connected, anchor,
             sinceConn, first, hit, falseRun>>

\* what the threads know of their own Next calls
pairHist == <<got, lastBy>>

\* the mutex, the threads and their history
thrVars == <<mu, pc, loc, returned, overlap>>

vars == <<servers, curr, last, seqHist, thrVars, pairHist>>

N == Len(servers)

Threads == 1..NumThreads

\* hp.mu unlocked
NoOwner == 0

NoInitResult ==
    [ok |-> FALSE, err |-> "", addrs |-> <<>>, in |-> <<>>, good |-> FALSE,
     partial |-> <<>>]

\* the locals of a thread: c is the hp.curr read on line 102, rs is retryStart,
\* idx the index of the address handed to resolve (-1: none), server the
\* address returned, r what Init computed before its assignments, n what Len
\* read; a method that returns leaves them behind
NoLoc == [c |-> 0, rs |-> FALSE, idx |-> -1, server |-> <<>>, r |-> NoInitResult,
          n |-> -1]

(* ---------------------------- Init ------------------------------------ *)

\* faulty variant of ParseFrom: an entry equal to one already parsed is dropped
RECURSIVE ParseFrom_Dedup(_, _, _)
ParseFrom_Dedup(in, i, addrs) ==
    IF i > Len(in) THEN [ok |-> TRUE, err |-> "", addrs |-> addrs]
    ELSE LET r == SplitHostPort(in[i])
             ia == inetAddress(r.host, r.port, FALSE)
         IN
         IF ~r.ok THEN [ok |-> FALSE, err |-> r.err, addrs |-> addrs]
         ELSE IF \E k \in 1..Len(addrs) : addrs[k] = ia
              THEN ParseFrom_Dedup(in, i + 1, addrs)
         ELSE ParseFrom_Dedup(in, i + 1, Append(addrs, ia))

\* the loop of Init: parse the entries in order, stop at the first error
RECURSIVE ParseFrom(_, _, _)
ParseFrom(in, i, addrs) ==
    IF i > Len(in) THEN [ok |-> TRUE, err |-> "", addrs |-> addrs]
    ELSE LET r == SplitHostPort(in[i]) IN
         IF ~r.ok THEN [ok |-> FALSE, err |-> r.err, addrs |-> addrs]
         ELSE ParseFrom(in, i + 1, Append(addrs, inetAddress(r.host, r.port, FALSE)))

\* faulty variant of ParseServers: an empty list is accepted
ParseServers_NoEmptyCheck(in) == ParseFrom(in, 1, <<>>)

\* Init up to the shuffle: the parsed list, or the error Init returns
ParseServers(in) ==
    LET p == ParseFrom(in, 1, <<>>) IN
    IF ~p.ok THEN p
    ELSE IF Len(p.addrs) = 0
         THEN [ok |-> FALSE, err |-> "no hosts found for addresses", addrs |-> p.addrs]
    ELSE p

InitInputs == UNION { [1..n -> ServerStrings] : n \in 0..MaxServers }

WellFormedList(in) == Len(in) > 0 /\ \A i \in 1..Len(in) : in[i] \in GoodStrings

\* every way a call of Init with one of the lists can end: the error, or the
\* shuffled list
InitResultsOf(inputs) ==
    UNION { LET p == ParseServers(in) IN
            IF p.ok
            THEN { [ok |-> TRUE, err |-> "", addrs |-> sh, in |-> in,
                    good |-> WellFormedList(in), partial |-> p.addrs]
                   : sh \in Shuffle(p.addrs) }
            ELSE { [ok |-> FALSE, err |-> p.err, addrs |-> <<>>, in |-> <<>>,
                    good |-> WellFormedList(in), partial |-> p.addrs] }
          : in \in inputs }

InitResults == InitResultsOf(InitInputs)

\* faulty variant of InitEffect: the fields are assigned before the input is
\* validated, so a failing Init leaves the entries parsed so far
InitEffect_AssignEarly(r, s, c, l) ==
    IF r.ok THEN [servers |-> r.addrs, curr |-> -1, last |-> -1]
    ELSE [servers |-> r.partial, curr |-> -1, last |-> -1]

\* faulty variant of InitEffect: a successful Init replaces the list but keeps
\* the cursor and the anchor
InitEffect_KeepCursor(r, s, c, l) ==
    IF r.ok THEN [servers |-> r.addrs, curr |-> c, last |-> l]
    ELSE [servers |-> s, curr |-> c, last |-> l]

\* the provider state Init leaves: replaced on success, untouched on error
InitEffect(r, s, c, l) ==
    IF r.ok THEN [servers |-> r.addrs, curr |-> -1, last |-> -1]
    ELSE [servers |-> s, curr |-> c, last |-> l]

NoFirst == [idx |-> -1, server |-> <<>>]

HpInit ==
    \E r \in InitResults :
        LET e == InitEffect(r, servers, curr, last) IN
        /\ servers' = e.servers
        /\ curr' = e.curr
        /\ last' = e.last
        /\ lastOp' = IF r.ok THEN "InitOk" ELSE "InitErr"
        /\ ret' = [NoRet EXCEPT !.err = r.err]
        /\ lookup' = NoLookup
        /\ arg' = r.in
        /\ argGood' = r.good
        /\ pre' = [curr |-> curr, last |-> last, n |-> N]
        /\ hit' = FALSE
        /\ IF r.ok
           THEN /\ nexts' = 0
                /\ connected' = FALSE
                /\ anchor' = -1
                /\ sinceConn' = 0
                /\ first' = NoFirst
                /\ falseRun' = 0
           ELSE UNCHANGED <<nexts, connected, anchor, sinceConn, first, falseRun>>
        /\ UNCHANGED <<thrVars, pairHist>>

(* ---------------------------- Next ------------------------------------ *)

\* faulty variant of NextCurr: the cursor stops at the last index instead of
\* wrapping
NextCurr_Clamp(c, n) == IF c + 1 >= n THEN n - 1 ELSE c + 1

\* hp.curr = (hp.curr + 1) % len(hp.servers)
NextCurr(c, n) == (c + 1) % n

\* faulty variant of RetryStart: the cursor is compared with index 0 instead of
\* the anchor
RetryStart_Zero(c, l) == c = 0

\* retryStart = hp.curr == hp.last
RetryStart(c, l) == c = l

\* faulty variant of DefaultLast: last is set to 0 on every call
DefaultLast_Reset(l) == 0

\* faulty variant of DefaultLast: last is never given its default
DefaultLast_Keep(l) == l

\* if hp.last == -1 { hp.last = 0 }
DefaultLast(l) == IF l = -1 THEN 0 ELSE l

\* faulty variant of resolve: a failed lookup returns the zero inetAddress
resolve_ZeroOnError(ia) ==
    IF ia.resolved
    THEN { [addr |-> ia, err |-> FALSE, lk |-> NoLookup] }
    ELSE UNION {
           LET lk == [called |-> TRUE, host |-> ia.host, outcome |-> o] IN
           IF o.err \/ Len(o.ips) = 0
           THEN { [addr |-> inetAddress(<<>>, <<>>, FALSE), err |-> TRUE, lk |-> lk] }
           ELSE { [addr |-> inetAddress(ips[1], ia.port, TRUE), err |-> FALSE, lk |-> lk]
                  : ips \in Shuffle(o.ips) }
         : o \in Outcomes }

\* resolve: every way it can end for one address. lk is the lookupHost call made.
resolve(ia) ==
    IF ia.resolved
    THEN { [addr |-> ia, err |-> FALSE, lk |-> NoLookup] }
    ELSE UNION {
           LET lk == [called |-> TRUE, host |-> ia.host, outcome |-> o] IN
           IF o.err \/ Len(o.ips) = 0
           THEN { [addr |-> ia, err |-> TRUE, lk |-> lk] }
           ELSE { [addr |-> inetAddress(ips[1], ia.port, TRUE), err |-> FALSE, lk |-> lk]
                  : ips \in Shuffle(o.ips) }
         : o \in Outcomes }

\* faulty variant of ResolveTarget: always the first entry
ResolveTarget_First(s, c) == s[1]

\* the address Next hands to resolve: hp.servers[hp.curr]
ResolveTarget(s, c) == s[c + 1]

\* Next on an initialised provider
HpNext ==
    /\ N > 0
    /\ nexts < MaxNexts
    /\ LET c == NextCurr(curr, N)
           rs == RetryStart(c, last)
       IN \E r \in resolve(ResolveTarget(servers, c)) :
            /\ curr' = c
            /\ last' = DefaultLast(last)
            /\ lastOp' = "Next"
            /\ ret' = [NoRet EXCEPT !.server = addr(r.addr), !.retryStart = rs]
            /\ lookup' = r.lk
            /\ arg' = <<>>
            /\ argGood' = FALSE
            /\ pre' = [curr |-> curr, last |-> last, n |-> N]
            /\ nexts' = nexts + 1
            /\ sinceConn' = sinceConn + 1
            /\ hit' = (first.idx = c)
            /\ falseRun' = IF rs THEN 0 ELSE falseRun + 1
            /\ first' = IF first.idx = -1 /\ ~r.err
                        THEN [idx |-> c, server |-> addr(r.addr)]
                        ELSE first
            /\ UNCHANGED <<servers, connected, anchor, thrVars, pairHist>>

\* Next before any successful Init: the modulo by len(hp.servers) = 0 panics
\* before anything is assigned, and the deferred Unlock runs
HpNextPanic ==
    /\ N = 0
    /\ lastOp' = "NextPanic"
    /\ ret' = NoRet
    /\ lookup' = NoLookup
    /\ arg' = <<>>
    /\ argGood' = FALSE
    /\ hit' = FALSE
    /\ pre' = [curr |-> curr, last |-> last, n |-> N]
    /\ UNCHANGED <<servers, curr, last, nexts, connected, anchor, sinceConn, first,
                   falseRun, thrVars, pairHist>>

(* ---------------------------- Connected, Len -------------------------- *)

\* faulty variant of ConnectedLast: the anchor is not moved
ConnectedLast_Keep(c, l) == l

\* faulty variant of ConnectedLast: the anchor is put back on index 0
ConnectedLast_Zero(c, l) == 0

\* hp.last = hp.curr
ConnectedLast(c, l) == c

Connected ==
    /\ last' = ConnectedLast(curr, last)
    /\ lastOp' = "Connected"
    /\ ret' = NoRet
    /\ lookup' = NoLookup
    /\ arg' = <<>>
    /\ argGood' = FALSE
    /\ hit' = FALSE
    /\ pre' = [curr |-> curr, last |-> last, n |-> N]
    /\ connected' = TRUE
    /\ anchor' = curr
    /\ sinceConn' = 0
    /\ falseRun' = 0
    /\ UNCHANGED <<servers, curr, nexts, first, thrVars, pairHist>>

\* faulty variant of HpLen: Len leaves the cursor on the last index
HpLen_MovesCursor ==
    /\ lastOp' = "Len"
    /\ ret' = [NoRet EXCEPT !.n = Len(servers)]
    /\ curr' = Len(servers) - 1
    /\ lookup' = NoLookup
    /\ arg' = <<>>
    /\ argGood' = FALSE
    /\ hit' = FALSE
    /\ pre' = [curr |-> curr, last |-> last, n |-> N]
    /\ UNCHANGED <<servers, last, nexts, connected, anchor, sinceConn, first,
                   falseRun, thrVars, pairHist>>

\* return len(hp.servers)
LenResult(s) == Len(s)

HpLen ==
    /\ lastOp' = "Len"
    /\ ret' = [NoRet EXCEPT !.n = LenResult(servers)]
    /\ lookup' = NoLookup
    /\ arg' = <<>>
    /\ argGood' = FALSE
    /\ hit' = FALSE
    /\ pre' = [curr |-> curr, last |-> last, n |-> N]
    /\ UNCHANGED <<servers, curr, last, nexts, connected, anchor, sinceConn, first,
                   falseRun, thrVars, pairHist>>

(* ---------------------------- specification --------------------------- *)

\* the zero value of DNSHostProvider: no servers, curr = 0, last = 0
Init ==
    /\ servers = <<>>
    /\ curr = 0
    /\ last = 0
    /\ lastOp = "none"
    /\ ret = NoRet
    /\ lookup = NoLookup
    /\ arg = <<>>
    /\ argGood = FALSE
    /\ pre = [curr |-> 0, last |-> 0, n |-> 0]
    /\ nexts = 0
    /\ connected = FALSE
    /\ anchor = -1
    /\ sinceConn = 0
    /\ first = NoFirst
    /\ hit = FALSE
    /\ falseRun = 0
    /\ mu = NoOwner
    /\ pc = [t \in Threads |-> "idle"]
    /\ loc = [t \in Threads |-> NoLoc]
    /\ returned = <<>>
    /\ overlap = FALSE
    /\ got = [t \in Threads |-> -1]
    /\ lastBy = NoOwner

Next ==
    \/ HpInit
    \/ HpNext
    \/ HpNextPanic
    \/ Connected
    \/ HpLen

Spec == Init /\ [][Next]_vars

(* ---------------------------- threads --------------------------------- *)
(* The same methods, called by several threads and taken one step at a     *)
(* time: the call, hp.mu.Lock(), each read and write of a field, the       *)
(* lookup, and the deferred hp.mu.Unlock() on return.                      *)

\* the lists the threads hand to Init
ConcInputs ==
    { <<>>,
      << <<"a", ":", "1">>, <<"a">> >>,
      << <<"a", ":", "1">> >>,
      << <<"a", ":", "1">>, <<"[", "b", "]", ":", "2">>, <<"a", ":", "1">> >> }

ConcInitResults == InitResultsOf(ConcInputs)

InitBody == {"Init.parse", "Init.servers", "Init.curr", "Init.last", "Init.unlock"}

NextBody == {"Next.read", "Next.write", "Next.retry", "Next.default",
             "Next.resolve", "Next.lookup", "Next.unlock"}

ConnectedBody == {"Connected.store", "Connected.unlock"}

LenBody == {"Len.read", "Len.unlock"}

\* the places where a thread is past hp.mu.Lock() and before hp.mu.Unlock()
Bodies == InitBody \cup NextBody \cup ConnectedBody \cup LenBody

Goto(t, l) == pc' = [pc EXCEPT ![t] = l]

\* hp.mu.Lock() returns: the mutex was free and is now held by t
Lock(t) == mu = NoOwner /\ mu' = t

\* the deferred hp.mu.Unlock()
Unlock(t) == mu' = NoOwner

\* --- Init ---

InitCall(t) ==
    /\ pc[t] = "idle"
    /\ Goto(t, "Init.lock")
    /\ UNCHANGED <<servers, curr, last, seqHist, mu, loc, returned, overlap>>

InitLock(t) ==
    /\ pc[t] = "Init.lock"
    /\ Lock(t)
    /\ Goto(t, "Init.parse")
    /\ UNCHANGED <<servers, curr, last, seqHist, loc, returned, overlap>>

\* faulty variant of InitParse: the error return does not release the mutex
InitParse_NoUnlockOnError(t) ==
    /\ pc[t] = "Init.parse"
    /\ \E r \in ConcInitResults :
         /\ loc' = [loc EXCEPT ![t].r = IF r.ok THEN r ELSE NoInitResult]
         /\ Goto(t, IF r.ok THEN "Init.servers" ELSE "idle")
    /\ UNCHANGED <<servers, curr, last, seqHist, mu, returned, overlap>>

\* lines 29-45: parse, check for an empty list, shuffle; an error returns
InitParse(t) ==
    /\ pc[t] = "Init.parse"
    /\ \E r \in ConcInitResults :
         /\ loc' = [loc EXCEPT ![t].r = r]
         /\ Goto(t, IF r.ok THEN "Init.servers" ELSE "Init.unlock")
    /\ UNCHANGED <<servers, curr, last, seqHist, mu, returned, overlap>>

\* hp.servers = addrs
InitServers(t) ==
    /\ pc[t] = "Init.servers"
    /\ servers' = InitEffect(loc[t].r, servers, curr, last).servers
    /\ Goto(t, "Init.curr")
    /\ UNCHANGED <<curr, last, seqHist, mu, loc, returned, overlap>>

\* hp.curr = -1
InitCurr(t) ==
    /\ pc[t] = "Init.curr"
    /\ curr' = InitEffect(loc[t].r, servers, curr, last).curr
    /\ returned' = <<>>
    /\ overlap' = FALSE
    /\ Goto(t, "Init.last")
    /\ UNCHANGED <<servers, last, seqHist, mu, loc>>

\* hp.last = -1
InitLast(t) ==
    /\ pc[t] = "Init.last"
    /\ last' = InitEffect(loc[t].r, servers, curr, last).last
    /\ Goto(t, "Init.unlock")
    /\ UNCHANGED <<servers, curr, seqHist, mu, loc, returned, overlap>>

InitUnlock(t) ==
    /\ pc[t] = "Init.unlock"
    /\ Unlock(t)
    /\ loc' = [loc EXCEPT ![t] = NoLoc]
    /\ Goto(t, "idle")
    /\ UNCHANGED <<servers, curr, last, seqHist, returned, overlap>>

\* --- Next ---

NextCall(t) ==
    /\ pc[t] = "idle"
    /\ Len(returned) + Cardinality({u \in Threads : pc[u] \in NextBody \cup {"Next.lock"}})
         < MaxConcNexts
    /\ overlap' = (overlap \/ \E u \in Threads : pc[u] \in NextBody \cup {"Next.lock"})
    /\ Goto(t, "Next.lock")
    /\ UNCHANGED <<servers, curr, last, seqHist, mu, loc, returned>>

\* faulty variant of NextLock: Next does not wait for the mutex
NextLock_NoWait(t) ==
    /\ pc[t] = "Next.lock"
    /\ mu' = t
    /\ Goto(t, "Next.read")
    /\ UNCHANGED <<servers, curr, last, seqHist, loc, returned, overlap>>

NextLock(t) ==
    /\ pc[t] = "Next.lock"
    /\ Lock(t)
    /\ Goto(t, "Next.read")
    /\ UNCHANGED <<servers, curr, last, seqHist, loc, returned, overlap>>

\* line 102, the operands: hp.curr is read; with no servers the modulo panics
\* and the deferred Unlock runs
NextRead(t) ==
    /\ pc[t] = "Next.read"
    /\ loc' = [loc EXCEPT ![t].c = curr, ![t].idx = -1]
    /\ Goto(t, IF N = 0 THEN "Next.unlock" ELSE "Next.write")
    /\ UNCHANGED <<servers, curr, last, seqHist, mu, returned, overlap>>

\* line 102, the assignment
NextWrite(t) ==
    /\ pc[t] = "Next.write"
    /\ curr' = NextCurr(loc[t].c, N)
    /\ Goto(t, "Next.retry")
    /\ UNCHANGED <<servers, last, seqHist, mu, loc, returned, overlap>>

\* line 103
NextRetry(t) ==
    /\ pc[t] = "Next.retry"
    /\ loc' = [loc EXCEPT ![t].rs = RetryStart(curr, last)]
    /\ Goto(t, "Next.default")
    /\ UNCHANGED <<servers, curr, last, seqHist, mu, returned, overlap>>

\* lines 104-106
NextDefault(t) ==
    /\ pc[t] = "Next.default"
    /\ last' = DefaultLast(last)
    /\ Goto(t, "Next.resolve")
    /\ UNCHANGED <<servers, curr, seqHist, mu, loc, returned, overlap>>

\* faulty variant of NextResolve: the mutex is released before the lookup
NextResolve_ReleasesLock(t) ==
    /\ pc[t] = "Next.resolve"
    /\ loc' = [loc EXCEPT ![t].idx = curr,
                          ![t].server = addr(ResolveTarget(servers, curr))]
    /\ mu' = NoOwner
    /\ Goto(t, "Next.lookup")
    /\ UNCHANGED <<servers, curr, last, seqHist, returned, overlap>>

\* line 107, the argument: hp.servers[hp.curr] is read and resolve is entered
NextResolve(t) ==
    /\ pc[t] = "Next.resolve"
    /\ loc' = [loc EXCEPT ![t].idx = curr,
                          ![t].server = addr(ResolveTarget(servers, curr))]
    /\ Goto(t, "Next.lookup")
    /\ UNCHANGED <<servers, curr, last, seqHist, mu, returned, overlap>>

\* lines 63-87 and 108-111: resolve ends one of the ways it can, for the
\* address read on line 107
NextLookup(t) ==
    /\ pc[t] = "Next.lookup"
    /\ \E r \in resolve(ResolveTarget(servers, loc[t].idx)) :
         loc' = [loc EXCEPT ![t].server = addr(r.addr)]
    /\ Goto(t, "Next.unlock")
    /\ UNCHANGED <<servers, curr, last, seqHist, mu, returned, overlap>>

NextUnlock(t) ==
    /\ pc[t] = "Next.unlock"
    /\ Unlock(t)
    /\ returned' = IF loc[t].idx = -1 THEN returned ELSE Append(returned, loc[t].idx)
    /\ loc' = [loc EXCEPT ![t] = NoLoc]
    /\ Goto(t, "idle")
    /\ UNCHANGED <<servers, curr, last, seqHist, overlap>>

\* --- Connected ---

ConnectedCall(t) ==
    /\ pc[t] = "idle"
    /\ Goto(t, "Connected.lock")
    /\ UNCHANGED <<servers, curr, last, seqHist, mu, loc, returned, overlap>>

ConnectedLock(t) ==
    /\ pc[t] = "Connected.lock"
    /\ Lock(t)
    /\ Goto(t, "Connected.store")
    /\ UNCHANGED <<servers, curr, last, seqHist, loc, returned, overlap>>

ConnectedStore(t) ==
    /\ pc[t] = "Connected.store"
    /\ last' = ConnectedLast(curr, last)
    /\ Goto(t, "Connected.unlock")
    /\ UNCHANGED <<servers, curr, seqHist, mu, loc, returned, overlap>>

ConnectedUnlock(t) ==
    /\ pc[t] = "Connected.unlock"
    /\ Unlock(t)
    /\ loc' = [loc EXCEPT ![t] = NoLoc]
    /\ Goto(t, "idle")
    /\ UNCHANGED <<servers, curr, last, seqHist, returned, overlap>>

\* --- Len ---

LenCall(t) ==
    /\ pc[t] = "idle"
    /\ Goto(t, "Len.lock")
    /\ UNCHANGED <<servers, curr, last, seqHist, mu, loc, returned, overlap>>

LenLock(t) ==
    /\ pc[t] = "Len.lock"
    /\ Lock(t)
    /\ Goto(t, "Len.read")
    /\ UNCHANGED <<servers, curr, last, seqHist, loc, returned, overlap>>

LenRead(t) ==
    /\ pc[t] = "Len.read"
    /\ loc' = [loc EXCEPT ![t].n = LenResult(servers)]
    /\ Goto(t, "Len.unlock")
    /\ UNCHANGED <<servers, curr, last, seqHist, mu, returned, overlap>>

LenUnlock(t) ==
    /\ pc[t] = "Len.unlock"
    /\ Unlock(t)
    /\ loc' = [loc EXCEPT ![t] = NoLoc]
    /\ Goto(t, "idle")
    /\ UNCHANGED <<servers, curr, last, seqHist, returned, overlap>>

\* a step of the threads that is not watched for pairs of Next and Connected
Unwatched(A) == A /\ UNCHANGED pairHist

ConcNext ==
    \E t \in Threads :
        \/ Unwatched(InitCall(t))
        \/ Unwatched(InitLock(t))
        \/ Unwatched(InitParse(t))
        \/ Unwatched(InitServers(t))
        \/ Unwatched(InitCurr(t))
        \/ Unwatched(InitLast(t))
        \/ Unwatched(InitUnlock(t))
        \/ Unwatched(NextCall(t))
        \/ Unwatched(NextLock(t))
        \/ Unwatched(NextRead(t))
        \/ Unwatched(NextWrite(t))
        \/ Unwatched(NextRetry(t))
        \/ Unwatched(NextDefault(t))
        \/ Unwatched(NextResolve(t))
        \/ Unwatched(NextLookup(t))
        \/ Unwatched(NextUnlock(t))
        \/ Unwatched(ConnectedCall(t))
        \/ Unwatched(ConnectedLock(t))
        \/ Unwatched(ConnectedStore(t))
        \/ Unwatched(ConnectedUnlock(t))
        \/ Unwatched(LenCall(t))
        \/ Unwatched(LenLock(t))
        \/ Unwatched(LenRead(t))
        \/ Unwatched(LenUnlock(t))

\* several threads on one provider, starting from its zero value
ConcSpec == Init /\ [][ConcNext]_vars

(* ---------------------------- fairness -------------------------------- *)

\* the places where a thread waits for hp.mu
LockWait == {"Init.lock", "Next.lock", "Connected.lock", "Len.lock"}

\* hp.mu.Lock() returns in thread t
Acquire(t) ==
    /\ UNCHANGED pairHist
    /\ (InitLock(t) \/ NextLock(t) \/ ConnectedLock(t) \/ LenLock(t))

\* thread t, past Lock, takes its next step; the lookup returning is one
Step(t) ==
    /\ UNCHANGED pairHist
    /\ \/ InitParse(t) \/ InitServers(t) \/ InitCurr(t) \/ InitLast(t)
       \/ InitUnlock(t)
       \/ NextRead(t) \/ NextWrite(t) \/ NextRetry(t) \/ NextDefault(t)
       \/ NextResolve(t) \/ NextLookup(t) \/ NextUnlock(t)
       \/ ConnectedStore(t) \/ ConnectedUnlock(t)
       \/ LenRead(t) \/ LenUnlock(t)

\* The scheduler runs every goroutine that can run, and lookupHost returns
\* (weak fairness of the steps). sync.Mutex hands the lock to a goroutine that
\* has waited long (starvation mode), so a waiter is not passed over for ever
\* (strong fairness of Lock).
FairSpec ==
    /\ ConcSpec
    /\ \A t \in Threads : WF_vars(Step(t)) /\ SF_vars(Acquire(t))

(* ---------------------------- Next and Connected in pairs ------------- *)

\* what a step of thread t lets the threads know: the index its Next returned,
\* forgotten when its Connected returns
PairObserve(t) ==
    /\ got' = IF pc[t] = "Next.unlock" /\ pc'[t] = "idle" /\ loc[t].idx # -1
              THEN [got EXCEPT ![t] = loc[t].idx]
              ELSE IF pc[t] = "Connected.unlock" /\ pc'[t] = "idle"
              THEN [got EXCEPT ![t] = -1]
              ELSE got
    /\ lastBy' = IF pc[t] = "Next.unlock" /\ pc'[t] = "idle" /\ loc[t].idx # -1
                 THEN t ELSE lastBy

\* the provider after a successful Init of one of the lists, no thread in a call
PairInit ==
    \E r \in ConcInitResults :
        /\ r.ok
        /\ servers = InitEffect(r, <<>>, 0, 0).servers
        /\ curr = InitEffect(r, <<>>, 0, 0).curr
        /\ last = InitEffect(r, <<>>, 0, 0).last
        /\ lastOp = "InitOk"
        /\ ret = NoRet
        /\ lookup = NoLookup
        /\ arg = r.in
        /\ argGood = r.good
        /\ pre = [curr |-> 0, last |-> 0, n |-> 0]
        /\ nexts = 0
        /\ connected = FALSE
        /\ anchor = -1
        /\ sinceConn = 0
        /\ first = NoFirst
        /\ hit = FALSE
        /\ falseRun = 0
        /\ mu = NoOwner
        /\ pc = [t \in Threads |-> "idle"]
        /\ loc = [t \in Threads |-> NoLoc]
        /\ returned = <<>>
        /\ overlap = FALSE
        /\ got = [t \in Threads |-> -1]
        /\ lastBy = NoOwner

\* a step of thread t, watched
Watched(A, t) == A /\ PairObserve(t)

PairNext ==
    \E t \in Threads :
        \/ Watched(NextCall(t), t)
        \/ Watched(NextLock(t), t)
        \/ Watched(NextRead(t), t)
        \/ Watched(NextWrite(t), t)
        \/ Watched(NextRetry(t), t)
        \/ Watched(NextDefault(t), t)
        \/ Watched(NextResolve(t), t)
        \/ Watched(NextLookup(t), t)
        \/ Watched(NextUnlock(t), t)
        \/ Watched(ConnectedCall(t), t)
        \/ Watched(ConnectedLock(t), t)
        \/ Watched(ConnectedStore(t), t)
        \/ Watched(ConnectedUnlock(t), t)

\* threads that call Next and Connected on an initialised provider
PairSpec == PairInit /\ [][PairNext]_vars

(* ---------------------------- properties ------------------------------ *)

\* the entries of a successful Init's argument, parsed, in the order given
ParsedArg == [i \in 1..Len(arg) |-> LET r == SplitHostPort(arg[i]) IN
                                     inetAddress(r.host, r.port, FALSE)]

\* C1, as the specification states it: with no Connected since a successful
\* Init of N candidates, the first N Next calls return retryStart = true on the
\* Nth call only, and for N = 3 the fourth call returns false.
C1_RetryOnNthCall ==
    (lastOp = "Next" /\ ~connected) =>
        /\ nexts <= N => (ret.retryStart <=> nexts = N)
        /\ (N = 3 /\ nexts = 4) => ~ret.retryStart

\* C1, amended: with no Connected since a successful Init of N candidates, the
\* first N Next calls return retryStart = false and call N+1 is the first to
\* return true (the cursor starts at -1, so call N+1 is the first to come back
\* to index 0); for N = 3 the first four flags are false, false, false, true.
C1_RetryOnCallAfterCycle ==
    (lastOp = "Next" /\ ~connected /\ nexts <= N + 1) =>
        (ret.retryStart <=> nexts = N + 1)

C1_Witness ==
    /\ lastOp = "Next" /\ ~connected
    /\ N = 3 /\ nexts = 4 /\ ret.retryStart /\ curr = 0

\* C2: after Connected at cursor i (i >= 0), a later Next with no Connected or
\* Init in between returns retryStart = true exactly when its new cursor is i,
\* which is exactly on the Nth, 2Nth, ... call after that Connected.
C2_RetryAtAnchor ==
    (lastOp = "Next" /\ anchor >= 0 /\ sinceConn >= 1) =>
        /\ ret.retryStart <=> curr = anchor
        /\ curr = anchor <=> sinceConn % N = 0

C2_Witness ==
    /\ lastOp = "Next" /\ N = 2 /\ anchor = 1
    /\ sinceConn = 4 /\ ret.retryStart /\ curr = 1

\* C3, as the specification states it: once the lookup for an index has
\* succeeded, a later Next landing on that index (before the next successful
\* Init) does not call the resolver and returns the address returned then.
C3_ResolutionCached ==
    (lastOp = "Next" /\ hit) =>
        (~lookup.called /\ ret.server = first.server)

\* C4: when lookupHost returns an error or no IPs for the candidate at the new
\* cursor, Next returns the non-empty "host:port" of that unresolved candidate
\* and moves curr, computes retryStart and defaults last as on success.
C4_FallbackOnLookupFailure ==
    (lastOp = "Next" /\ lookup.called
        /\ (lookup.outcome.err \/ Len(lookup.outcome.ips) = 0)) =>
        /\ ret.server # <<>>
        /\ ~servers[curr + 1].resolved
        /\ ret.server = JoinHostPort(servers[curr + 1].host, servers[curr + 1].port)
        /\ lookup.host = servers[curr + 1].host
        /\ curr = (pre.curr + 1) % N
        /\ ret.retryStart = (curr = pre.last)
        /\ last = IF pre.last = -1 THEN 0 ELSE pre.last

C4_Witness ==
    /\ lastOp = "Next" /\ lookup.called /\ lookup.outcome.err
    /\ ret.server = <<"b", ":", "2">> /\ pre.last = -1 /\ last = 0

\* C5: an Init that returns an error (empty list, or an entry that cannot be
\* split, wherever it sits in the list) leaves servers, curr and last as they
\* were.
C5_FailedInitKeepsState ==
    [][lastOp' = "InitErr" => UNCHANGED <<servers, curr, last>>]_vars

C5_Witness ==
    /\ lastOp = "InitErr" /\ ret.err = "too many colons in address"
    /\ N = 3 /\ curr = 2 /\ last = 1 /\ nexts = 6

C7_CursorCyclic ==
    /\ lastOp = "Next" => (curr = (pre.curr + 1) % N /\ N = pre.n)
    /\ (N > 0 /\ nexts > 0) => curr = (nexts - 1) % N
    /\ (N > 0 /\ nexts = 0) => curr = -1

C7_Witness ==
    /\ lastOp = "Next" /\ connected /\ anchor = 2
    /\ N = 3 /\ nexts = 7 /\ curr = 0 /\ pre.curr = 2

\* C8: a successful Init replaces the sequence by the shuffled parsed input
\* and sets curr = -1 and last = -1 whatever the state before; the first Next
\* after it lands on index 0 with retryStart = false.
C8_InitResets ==
    /\ lastOp = "InitOk" =>
         /\ curr = -1 /\ last = -1
         /\ servers \in Shuffle(ParsedArg)
         /\ \A i \in 1..N : ~servers[i].resolved
    /\ (lastOp = "Next" /\ nexts = 1) =>
         /\ pre.curr = -1 /\ pre.last = -1
         /\ curr = 0 /\ ~ret.retryStart
         /\ lookup.called /\ lookup.host = servers[1].host

C8_Witness ==
    /\ lastOp = "InitOk" /\ pre.n = 3 /\ pre.curr = 2 /\ pre.last = 1
    /\ N = 2 /\ servers[1].host = <<"b">>

\* C9: the mutex makes the methods atomic: at most one thread is between Lock
\* and Unlock, and it holds hp.mu; and when k Next calls issued by any number
\* of threads since a successful Init (cursor -1) have returned and none is
\* under way, no cursor update was lost: curr = (-1 + k) mod N and the calls
\* returned the indices (-1 + 1) mod N, ..., (-1 + k) mod N, each as often as
\* it occurs in that list.
C9_NextCallsSerialized ==
    /\ \A t, u \in Threads : (pc[t] \in Bodies /\ pc[u] \in Bodies) => t = u
    /\ \A t \in Threads : pc[t] \in Bodies => mu = t
    /\ (N > 0 /\ \A t \in Threads : pc[t] \notin NextBody \cup InitBody) =>
         LET k == Len(returned) IN
         /\ curr = IF k = 0 THEN -1 ELSE (k - 1) % N
         /\ \A v \in 0..(N - 1) :
              Cardinality({j \in 1..k : returned[j] = v})
                = Cardinality({j \in 1..k : (j - 1) % N = v})

C9_Witness ==
    /\ overlap /\ \A t \in Threads : pc[t] = "idle"
    /\ N = 3 /\ Len(returned) = 4 /\ curr = 0

C11_ResolvedEntryStored ==
    (lastOp = "Next" /\ lookup.called /\ ~lookup.outcome.err
        /\ Len(lookup.outcome.ips) > 0) =>
        /\ servers[curr + 1].resolved
        /\ addr(servers[curr + 1]) = ret.server

\* C12: a successful Init leaves a non-empty sequence, no later operation
\* empties it, and from then on curr and last are in -1..N-1; Next leaves curr
\* on an index of the sequence.
C12_IndicesInRange ==
    /\ lastOp = "InitOk" => N > 0
    /\ pre.n > 0 => N > 0
    /\ N > 0 => (curr \in -1..(N - 1) /\ last \in -1..(N - 1))
    /\ lastOp = "Next" => curr \in 0..(N - 1)

C12_Witness ==
    /\ lastOp = "InitOk" /\ pre.n = 3 /\ pre.curr = 2 /\ pre.last = 2
    /\ N = 1

\* C15: last changes in three ways only. Connected sets it to curr and leaves
\* curr and the sequence alone; a successful Init sets it to -1; Next sets it
\* to 0 when it is -1 and leaves it alone otherwise; every other operation
\* leaves it alone.
C15_LastChanges ==
    [][ /\ lastOp' = "Connected" => (last' = curr /\ UNCHANGED <<curr, servers>>)
        /\ lastOp' = "InitOk" => last' = -1
        /\ lastOp' = "Next" => last' = (IF last = -1 THEN 0 ELSE last)
        /\ lastOp' \in {"Len", "InitErr", "NextPanic"} => last' = last ]_vars

C15_Witness ==
    /\ lastOp = "Connected" /\ N = 3 /\ pre.last = 0 /\ last = 2 /\ curr = 2

\* C16: Len changes neither the sequence nor curr nor last; Next and Connected
\* leave the sequence as long as it was, with every entry's port where it was
\* and the host of every entry that is not resolved where it was.
C16_OrderFixed ==
    [][ /\ lastOp' = "Len" => UNCHANGED <<servers, curr, last>>
        /\ lastOp' \in {"Next", "Connected"} =>
             /\ Len(servers') = Len(servers)
             /\ \A i \in 1..Len(servers) :
                  /\ servers'[i].port = servers[i].port
                  /\ ~servers'[i].resolved => servers'[i].host = servers[i].host ]_vars

C16_Witness ==
    /\ lastOp = "Len" /\ ret.n = 3 /\ curr = 1 /\ last = 1 /\ nexts = 5
    /\ servers[1].host = <<"b">> /\ servers[2].host = <<"a">>

\* C17: Next returns retryStart = true only when at least N Next calls, this
\* one included, were made since the most recent Connected or successful
\* Init, so that every index was returned since then; and no more than N Next
\* calls in a row return false without a Connected or an Init among them.
C17_RetryStartSoundAndBounded ==
    /\ (lastOp = "Next" /\ ret.retryStart) => sinceConn >= N
    /\ N > 0 => falseRun <= N

C17_Witness ==
    /\ lastOp = "Next" /\ ret.retryStart /\ N = 3 /\ anchor = 1
    /\ sinceConn = 3 /\ nexts = 5 /\ curr = 1 /\ falseRun = 0

\* C13, as the specification states it: a Connected of a thread sets last to
\* the index that thread's preceding Next returned, whatever the other threads
\* did in between.
C13_PairsAtomic ==
    \A t \in Threads :
        (pc[t] = "Connected.unlock" /\ got[t] # -1) => last = got[t]

\* C13, amended: a Connected sets last to the value curr has when it runs,
\* which is the index returned by the most recent Next of any thread; that is
\* the index the same thread's preceding Next returned when no other thread's
\* Next returned after it.
C13_ConnectedAnchorsLatestNext ==
    \A t \in Threads :
        pc[t] = "Connected.unlock" =>
            /\ last = curr
            /\ returned # <<>> => last = returned[Len(returned)]
            /\ (got[t] # -1 /\ lastBy = t) => last = got[t]

C13_Witness ==
    /\ pc[1] = "Connected.unlock" /\ got[1] = 0 /\ got[2] = 1 /\ lastBy = 2
    /\ last = 1 /\ N = 3

\* C14: while a thread is in the lookup of Next it holds hp.mu, and in no step
\* taken meanwhile does another thread do more than call a method and wait
\* for the mutex: none enters or completes Init, Next, Connected or Len until
\* the lookup returns.
C14_LookupHoldsLock ==
    [][ \A t \in Threads :
          pc[t] = "Next.lookup" =>
            /\ mu = t
            /\ \A u \in Threads \ {t} :
                 \/ pc'[u] = pc[u]
                 \/ (pc[u] = "idle" /\ pc'[u] \in LockWait) ]_vars

C14_Witness ==
    /\ pc[1] = "Next.lookup" /\ mu = 1 /\ pc[2] = "Len.lock" /\ N = 3

\* C18: the mutex is free whenever no thread is between Lock and Unlock, on
\* the error returns of Init too, and under the fairness of FairSpec every
\* method a thread has called returns.
C18_OperationsComplete ==
    /\ []((\A t \in Threads : pc[t] \notin Bodies) => mu = NoOwner)
    /\ \A t \in Threads : (pc[t] # "idle") ~> (pc[t] = "idle")

C18_Witness ==
    /\ pc[1] = "Init.unlock" /\ loc[1].r.err = "no hosts found for addresses"
    /\ mu = 1 /\ pc[2] = "Next.lock" /\ N = 3

====
